---- MODULE Spec2Model ----
(***************************************************************************)
(* Model of the TrIAje 593 triage assistant:                               *)
(*   src/src/voice_recognition.py  transcribe_audio, cleanup_temp_file,    *)
(*                                 append_text                             *)
(*   src/app/app.py                the Streamlit script (model loading,    *)
(*                                 voice block, text area, analysis)       *)
(* Five specifications share the module, one per part of the program:      *)
(*   SpecText      append_text on strings                                  *)
(*   SpecClassify  argmax / confidence banding / top-3 of one prediction   *)
(*   SpecVoice     interleaved transcribe_audio calls on temp_audio.wav    *)
(*   Spec          script runs of one browser session, models loaded       *)
(*   SpecStartup   script runs while the model files and the cached load   *)
(*                 result change                                           *)
(* Strings are sequences of one-character strings.                         *)
(***************************************************************************)
EXTENDS Integers, Sequences, FiniteSets, TLC

VARIABLES
    \* append_text (SpecText)
    current_text, new_text, merged, textPhase,
    \* one prediction (SpecClassify)
    pred_probs, max_idx, confidence, band, top3_idx, clsPhase,
    \* transcribe_audio calls (SpecVoice)
    pc, audio_bytes, temp_file, audio_data, fault, path, ret, cleanups, rmFailed,
    \* the Streamlit app (Spec)
    artifacts, cache, session, lastRun

textVars == <<current_text, new_text, merged, textPhase>>
clsVars == <<pred_probs, max_idx, confidence, band, top3_idx, clsPhase>>
voiceVars ==
    <<pc, audio_bytes, temp_file, audio_data, fault, path, ret, cleanups, rmFailed>>
appVars == <<artifacts, cache, session, lastRun>>
vars == <<textVars, clsVars, voiceVars, appVars>>

\* Each specification moves the variables of its part only.
TextOnly == UNCHANGED <<clsVars, voiceVars, appVars>>
ClsOnly == UNCHANGED <<textVars, voiceVars, appVars>>
VoiceOnly == UNCHANGED <<textVars, clsVars, appVars>>
AppOnly == UNCHANGED <<textVars, clsVars, voiceVars>>

----------------------------------------------------------------------------
(* Strings                                                                  *)

\* Longest string argument of append_text that is enumerated.
MaxLen == 3

\* Characters str.strip() removes (a space and a tab stand for all of them).
Whitespace == {" ", "\t"}

Alphabet == {"a"} \cup Whitespace

Strings(n) == UNION {[1..k -> Alphabet] : k \in 0..n}

RECURSIVE LStrip(_)
LStrip(s) == IF s = <<>> THEN s
             ELSE IF Head(s) \in Whitespace THEN LStrip(Tail(s)) ELSE s

RECURSIVE RStrip(_)
RStrip(s) == IF s = <<>> THEN s
             ELSE IF s[Len(s)] \in Whitespace THEN RStrip(SubSeq(s, 1, Len(s) - 1))
             ELSE s

\* str.strip()
Strip(s) == RStrip(LStrip(s))

\* append_text that trims the existing text before joining.
append_text_trim(cur, new) ==
    IF cur = <<>> \/ Strip(cur) = <<>> THEN new ELSE Strip(cur) \o <<" ">> \o new

\* append_text(current_text, new_text)
append_text(cur, new) ==
    IF cur = <<>> \/ Strip(cur) = <<>> THEN new ELSE cur \o <<" ">> \o new

TextIdle ==
    /\ current_text = <<>> /\ new_text = <<>> /\ merged = <<>> /\ textPhase = "off"

TextInit ==
    /\ current_text \in Strings(MaxLen)
    /\ new_text \in Strings(MaxLen)
    /\ merged = <<>>
    /\ textPhase = "args"

\* One call merged = append_text(current_text, new_text).
AppendText ==
    /\ TextOnly
    /\ textPhase = "args"
    /\ merged' = append_text(current_text, new_text)
    /\ textPhase' = "merged"
    /\ UNCHANGED <<current_text, new_text>>

\* The merged text becomes the existing text of the next dictation.
NextDictation ==
    /\ TextOnly
    /\ textPhase = "merged"
    /\ Len(merged) <= MaxLen
    /\ current_text' = merged
    /\ new_text' \in Strings(MaxLen)
    /\ merged' = <<>>
    /\ textPhase' = "args"

----------------------------------------------------------------------------
(* One prediction: app.py lines 189-211 and 248-256                         *)

\* Number of specialties the label encoder knows.
NClasses == 4

\* Probabilities are multiples of 1/Scale: pred_probs[i] = k stands for k/Scale.
Scale == 10

\* The literals 0.8 and 0.5 of the certainty bands, in tenths.
HighTenths == 8
MediumTenths == 5

\* Size of the "Otras posibilidades" slice [-3:].
TopK == 3

\* The sequences of n probabilities that add up to total/Scale.
RECURSIVE Shares(_, _)
Shares(n, total) ==
    IF n = 0 THEN (IF total = 0 THEN {<<>>} ELSE {})
    ELSE UNION {{Append(p, k) : p \in Shares(n - 1, total - k)} : k \in 0..total}

\* What model.predict_proba(...)[0] can return: a distribution over the classes.
Distributions == Shares(NClasses, Scale)

\* np.argmax: the first index holding the maximum.
argmax(p) ==
    CHOOSE i \in 1..NClasses :
        /\ \A j \in 1..NClasses : p[j] <= p[i]
        /\ \A j \in 1..(i - 1) : p[j] < p[i]

\* np.argsort(p) with the default kind ("quicksort", not stable): any
\* permutation of the indices that puts the values in ascending order.
argsort(p) ==
    {q \in [1..NClasses -> 1..NClasses] :
        /\ \A i, j \in 1..NClasses : i # j => q[i] # q[j]
        /\ \A i, j \in 1..NClasses : i < j => p[q[i]] <= p[q[j]]}

MinOf(a, b) == IF a < b THEN a ELSE b

\* q[-3:][::-1]: the last three entries, reversed.
LastReversed(q) == [i \in 1..MinOf(TopK, NClasses) |-> q[NClasses + 1 - i]]

\* Banding whose upper boundary is inclusive.
BandInclusive(conf) ==
    IF 10 * conf >= HighTenths * Scale THEN "Alto"
    ELSE IF 10 * conf > MediumTenths * Scale THEN "Medio"
    ELSE "Bajo"

\* The certainty card: confidence > 0.8, elif confidence > 0.5, else.
Band(conf) ==
    IF 10 * conf > HighTenths * Scale THEN "Alto"
    ELSE IF 10 * conf > MediumTenths * Scale THEN "Medio"
    ELSE "Bajo"

ClsIdle ==
    /\ pred_probs = <<>> /\ max_idx = 0 /\ confidence = 0 /\ band = "none"
    /\ top3_idx = <<>> /\ clsPhase = "off"

ClsInit ==
    /\ pred_probs \in Distributions
    /\ max_idx = 0 /\ confidence = 0 /\ band = "none" /\ top3_idx = <<>>
    /\ clsPhase = "predicted"

\* Lines 190-211 and 250: the results section for one pred_probs.
ShowResults ==
    /\ ClsOnly
    /\ clsPhase = "predicted"
    /\ max_idx' = argmax(pred_probs)
    /\ confidence' = pred_probs[argmax(pred_probs)]
    /\ band' = Band(pred_probs[argmax(pred_probs)])
    /\ \E q \in argsort(pred_probs) : top3_idx' = LastReversed(q)
    /\ clsPhase' = "shown"
    /\ UNCHANGED pred_probs

----------------------------------------------------------------------------
(* transcribe_audio and cleanup_temp_file: voice_recognition.py lines 25-93 *)
(* Every call uses the one path "temp_audio.wav" of the working directory.  *)
(* A call is a thread of the server process (one per session running the    *)
(* script); its steps interleave with those of the other calls.             *)

\* Threads that may be inside transcribe_audio at once.
NCallers == 2

Callers == 1..NCallers

\* What caller c can pass as audio_bytes: its own recording, named c, or 0
\* for bytes that are no readable WAV.
Clips(c) == {0, c}

MsgUnknown == "No se pudo entender el audio. Intenta hablar mas claro."
MsgService == "Error del servicio de reconocimiento"
MsgProcessing == "Error procesando audio"

\* Exceptions the steps can raise; all derive from Exception.
WriteOutcomes == {"ok", "open_fails", "write_fails"}
LoadOutcomes == {"ok", "OSError"}
RecognizeOutcomes == {"ok", "UnknownValueError", "RequestError", "OtherError"}
RemoveOutcomes == {"ok", "remove_fails"}

\* The file temp_audio.wav: whether it exists, what it holds (0: nothing
\* readable) and which running call wrote it last (0: a call that is over).
NoFile == [exists |-> FALSE, data |-> 0, writer |-> 0]

NoReturn == [success |-> FALSE, text |-> 0, error |-> "unset"]

\* The except clause that handles an exception, by the step that raised it;
\* the outer clause catches only OS errors in this variant.
HandlerOSErrorOnly(stage, exc) ==
    IF stage = "recognize" /\ exc = "UnknownValueError" THEN "unknown"
    ELSE IF stage = "recognize" /\ exc = "RequestError" THEN "request"
    ELSE IF exc \in {"OSError"} THEN "outer"
    ELSE "escapes"

\* The except clause that handles an exception, by the step that raised it:
\* lines 69 and 73 inside the inner try (around recognize_google only), line
\* 77 (except Exception) for everything else.
Handler(stage, exc) ==
    IF stage = "recognize" /\ exc = "UnknownValueError" THEN "unknown"
    ELSE IF stage = "recognize" /\ exc = "RequestError" THEN "request"
    ELSE "outer"

\* The tuple (success, text, error_message) an exit path returns: lines 67,
\* 71, 75 and 79. text 0 and error "None" stand for None.
ReturnValue(p, text) ==
    IF p = "success" THEN [success |-> TRUE, text |-> text, error |-> "None"]
    ELSE IF p = "unknown" THEN [success |-> FALSE, text |-> 0, error |-> MsgUnknown]
    ELSE IF p = "request" THEN [success |-> FALSE, text |-> 0, error |-> MsgService]
    ELSE [success |-> FALSE, text |-> 0, error |-> MsgProcessing]

\* Exit paths that call cleanup_temp_file, the outer handler left out.
CleansUpInnerOnly(p) == p \in {"success", "unknown", "request"}

\* Exit paths that call cleanup_temp_file before returning: lines 66, 70, 74, 78.
CleansUp(p) == p \in {"success", "unknown", "request", "outer"}

\* cleanup_temp_file(filepath): remove the file if it exists; a failing
\* os.remove is swallowed and leaves the file.
cleanup_temp_file(f, rm) == IF f.exists /\ rm = "ok" THEN NoFile ELSE f

\* recognize_google's transcript of a recording: one text per recording.
Transcript(data) == data

VoiceIdle ==
    /\ pc = <<>> /\ audio_bytes = <<>> /\ audio_data = <<>> /\ fault = <<>>
    /\ path = <<>> /\ ret = <<>> /\ cleanups = <<>> /\ rmFailed = <<>>
    /\ temp_file = NoFile

VoiceInit ==
    /\ pc = [c \in Callers |-> "idle"]
    /\ audio_bytes = [c \in Callers |-> 0]
    /\ audio_data = [c \in Callers |-> 0]
    /\ fault = [c \in Callers |-> "none"]
    /\ path = [c \in Callers |-> "none"]
    /\ ret = [c \in Callers |-> NoReturn]
    /\ cleanups = [c \in Callers |-> 0]
    /\ rmFailed = [c \in Callers |-> FALSE]
    /\ temp_file = NoFile

\* An exception of kind exc raised by caller c in step stage.
Raise(c, stage, exc) ==
    IF Handler(stage, exc) = "escapes"
    THEN /\ pc' = [pc EXCEPT ![c] = "raised"]
         /\ path' = [path EXCEPT ![c] = "escapes"]
         /\ fault' = [fault EXCEPT ![c] = exc]
    ELSE /\ pc' = [pc EXCEPT ![c] = "cleanup"]
         /\ path' = [path EXCEPT ![c] = Handler(stage, exc)]
         /\ fault' = [fault EXCEPT ![c] = exc]

\* transcribe_audio(b) is entered by caller c. A file left by an earlier
\* call of the same caller is no longer that of a running call.
Call(c, b) ==
    /\ VoiceOnly
    /\ pc[c] = "idle"
    /\ pc' = [pc EXCEPT ![c] = "write"]
    /\ audio_bytes' = [audio_bytes EXCEPT ![c] = b]
    /\ audio_data' = [audio_data EXCEPT ![c] = 0]
    /\ fault' = [fault EXCEPT ![c] = "none"]
    /\ path' = [path EXCEPT ![c] = "none"]
    /\ ret' = [ret EXCEPT ![c] = NoReturn]
    /\ cleanups' = [cleanups EXCEPT ![c] = 0]
    /\ rmFailed' = [rmFailed EXCEPT ![c] = FALSE]
    /\ temp_file' = IF temp_file.writer = c
                    THEN [temp_file EXCEPT !.writer = 0] ELSE temp_file

\* Lines 46-47: open(temp_file, "wb") truncates or creates, write fills.
WriteTemp(c, io) ==
    /\ VoiceOnly
    /\ pc[c] = "write"
    /\ UNCHANGED <<audio_bytes, audio_data, ret, cleanups, rmFailed>>
    /\ \/ /\ io = "ok"
          /\ temp_file' = [exists |-> TRUE, data |-> audio_bytes[c], writer |-> c]
          /\ pc' = [pc EXCEPT ![c] = "load"]
          /\ UNCHANGED <<fault, path>>
       \/ /\ io = "open_fails"
          /\ UNCHANGED temp_file
          /\ Raise(c, "write", "OSError")
       \/ /\ io = "write_fails"
          /\ temp_file' = [exists |-> TRUE, data |-> 0, writer |-> c]
          /\ Raise(c, "write", "OSError")

\* Lines 57-61: AudioFile opens the path and record() reads what it holds now.
LoadAudio(c, io) ==
    /\ VoiceOnly
    /\ pc[c] = "load"
    /\ UNCHANGED <<audio_bytes, temp_file, ret, cleanups, rmFailed>>
    /\ IF ~temp_file.exists
       THEN Raise(c, "load", "OSError") /\ UNCHANGED audio_data
       ELSE IF temp_file.data = 0
       THEN Raise(c, "load", "ValueError") /\ UNCHANGED audio_data
       ELSE IF io # "ok"
       THEN Raise(c, "load", io) /\ UNCHANGED audio_data
       ELSE /\ audio_data' = [audio_data EXCEPT ![c] = temp_file.data]
            /\ pc' = [pc EXCEPT ![c] = "recognize"]
            /\ UNCHANGED <<fault, path>>

\* Line 65: recognize_google returns a transcript or raises.
Recognize(c, o) ==
    /\ VoiceOnly
    /\ pc[c] = "recognize"
    /\ UNCHANGED <<audio_bytes, temp_file, audio_data, ret, cleanups, rmFailed>>
    /\ IF o = "ok"
       THEN /\ pc' = [pc EXCEPT ![c] = "cleanup"]
            /\ path' = [path EXCEPT ![c] = "success"]
            /\ UNCHANGED fault
       ELSE Raise(c, "recognize", o)

\* The chosen exit path: cleanup_temp_file(temp_file), then return.
CleanupAndReturn(c, rm) ==
    /\ VoiceOnly
    /\ pc[c] = "cleanup"
    /\ pc' = [pc EXCEPT ![c] = "returned"]
    /\ ret' = [ret EXCEPT ![c] = ReturnValue(path[c], Transcript(audio_data[c]))]
    /\ IF CleansUp(path[c])
       THEN /\ temp_file' = cleanup_temp_file(temp_file, rm)
            /\ cleanups' = [cleanups EXCEPT ![c] = @ + 1]
            /\ rmFailed' = [rmFailed EXCEPT ![c] = temp_file.exists /\ rm # "ok"]
       ELSE UNCHANGED <<temp_file, cleanups, rmFailed>>
    /\ UNCHANGED <<audio_bytes, audio_data, fault, path>>

\* The caller takes the tuple (or the exception) and may call again.
TakeResult(c) ==
    /\ VoiceOnly
    /\ pc[c] \in {"returned", "raised"}
    /\ pc' = [pc EXCEPT ![c] = "idle"]
    /\ audio_bytes' = [audio_bytes EXCEPT ![c] = 0]
    /\ audio_data' = [audio_data EXCEPT ![c] = 0]
    /\ fault' = [fault EXCEPT ![c] = "none"]
    /\ path' = [path EXCEPT ![c] = "none"]
    /\ ret' = [ret EXCEPT ![c] = NoReturn]
    /\ cleanups' = [cleanups EXCEPT ![c] = 0]
    /\ rmFailed' = [rmFailed EXCEPT ![c] = FALSE]
    /\ UNCHANGED temp_file

----------------------------------------------------------------------------
(* The Streamlit script: app.py. Every interaction of the browser session   *)
(* runs the script from line 1 with the widget values of that moment.       *)

\* Line 179: len(texto_input) < 10.
MinLen == 10

\* Recordings a user makes in a session: recording k is heard as k letters.
MaxHeard == 1

\* Most spaces typed on either side of a description.
MaxPad == 1

\* Longest session text followed; a run that would pass it is not taken.
MaxText == 13

\* The count of merges of one recording stops here.
MaxMerges == 2

Rep(ch, n) == [i \in 1..n |-> ch]
Pad(n) == Rep(" ", n)
Word(n) == Rep("a", n)

\* Descriptions the user types: a word of no letters, or of one letter less
\* than MinLen, or of MinLen letters, with spaces around it, and a line of
\* MinLen spaces.
WordLens == {0, MinLen - 1, MinLen}
TypedTexts ==
    {Pad(k) \o Word(m) \o Pad(j) : k \in 0..MaxPad, j \in 0..MaxPad, m \in WordLens}
        \cup {Pad(MinLen)}

\* The recordings a user makes: recording k is heard as a word of k letters.
Recordings == 1..MaxHeard
Heard(k) == Word(k)

FileStates == {"ok", "missing", "corrupt"}

\* The body of load_models (lines 49-59): (model, le), or (None, None) when a
\* file is missing or pickle.load raises.
LoadFromDisk(art) ==
    IF art.svm = "missing" \/ art.le = "missing" THEN "failed"
    ELSE IF art.svm = "corrupt" \/ art.le = "corrupt" THEN "failed"
    ELSE "loaded"

\* load_models without st.cache_resource: the files are read on every run.
load_models_uncached(c, art) == LoadFromDisk(art)

\* @st.cache_resource load_models(): the cached result when there is one.
load_models(c, art) == IF c # "unset" THEN c ELSE LoadFromDisk(art)

\* A script that goes on without a model.
NeverStops(model) == FALSE

\* Lines 88-91: if not model: st.warning(...); st.stop().
Stops(model) == model # "loaded"

\* A threshold one character lower.
TooBriefOffByOne(t) == Len(t) < MinLen - 1

\* Line 179: len(texto_input) < 10, on the text as it stands in the text area.
TooBrief(t) == Len(t) < MinLen

\* Lines 185-229: the components the analysis calls.
Pipeline ==
    {"limpiar_texto_medico", "predict_proba", "inverse_transform",
     "calcular_prioridad", "calcular_derivacion"}

\* transcribe_audio(b) as the script calls it (line 119): the tuple of the
\* exit path the outcome o leads to.
TranscribeCall(b, o) ==
    IF o = "ok" THEN ReturnValue("success", Transcript(b))
    ELSE ReturnValue(Handler("recognize", o), 0)

NoSession ==
    [keySet |-> FALSE, texto_completo |-> <<>>, audio |-> 0, merges |-> 0,
     taLive |-> FALSE, taDef |-> <<>>, taVal |-> <<>>]

NoRun ==
    [kind |-> "none", degraded |-> FALSE, banner |-> "none", stopped |-> FALSE,
     clipHeld |-> FALSE, ntrans |-> 0, textKept |-> TRUE, message |-> "none",
     calls |-> {}, exception |-> FALSE]

\* Lines 178-261: the analysis block of a run that got there.
Analysis(model, analizar, texto_input) ==
    IF analizar /\ texto_input # <<>>
    THEN IF TooBrief(texto_input)
         THEN [message |-> "too_brief", calls |-> {}, exception |-> FALSE]
         ELSE IF model = "loaded"
         THEN [message |-> "results", calls |-> Pipeline, exception |-> FALSE]
         ELSE [message |-> "none", calls |-> {"limpiar_texto_medico"},
               exception |-> TRUE]
    ELSE IF analizar
    THEN [message |-> "empty", calls |-> {}, exception |-> FALSE]
    ELSE [message |-> "none", calls |-> {}, exception |-> FALSE]

\* One run of the script: c the cache, art the files, s the session with the
\* widget values, btn the button pressed, o what the speech service answers.
\* Gives the cache, the session and what the run did; rerun is st.rerun().
ScriptRun(c, art, s, kind, btn, o) ==
    LET model == load_models(c, art)
        store == IF c = "unset" THEN model ELSE c
        banner == IF model = "loaded" THEN "online" ELSE "offline"
    IN  IF Stops(model)
        THEN \* widgets the run did not reach lose their state
             [cache |-> store,
              session |-> [s EXCEPT !.audio = 0, !.merges = 0, !.taLive = FALSE],
              rerun |-> FALSE,
              out |-> [kind |-> kind, degraded |-> TRUE, banner |-> banner,
                       stopped |-> TRUE, clipHeld |-> s.audio # 0, ntrans |-> 0,
                       textKept |-> TRUE, message |-> "none", calls |-> {},
                       exception |-> FALSE]]
        ELSE
        LET text0 == IF s.keySet THEN s.texto_completo ELSE <<>>
            tr == IF s.audio # 0 THEN TranscribeCall(s.audio, o) ELSE NoReturn
            mergedNow == s.audio # 0 /\ tr.success
            text1 == IF mergedNow THEN append_text(text0, Heard(tr.text)) ELSE text0
            \* a text_area without key is a new widget when its value changes
            fresh == ~s.taLive \/ s.taDef # text1
            texto_input == IF fresh THEN text1 ELSE s.taVal
            limpiar == btn = "limpiar"
            text2 == IF limpiar THEN <<>> ELSE texto_input
            an == IF limpiar
                  THEN [message |-> "none", calls |-> {}, exception |-> FALSE]
                  ELSE Analysis(model, btn = "analizar", texto_input)
        IN  [cache |-> store,
             session |-> [keySet |-> TRUE, texto_completo |-> text2, audio |-> s.audio,
                          merges |-> IF mergedNow
                                     THEN MinOf(s.merges + 1, MaxMerges)
                                     ELSE s.merges,
                          taLive |-> TRUE,
                          taDef |-> IF fresh THEN text1 ELSE s.taDef,
                          taVal |-> texto_input],
             rerun |-> limpiar,
             out |-> [kind |-> kind, degraded |-> model # "loaded",
                      banner |-> banner, stopped |-> FALSE,
                      clipHeld |-> s.audio # 0,
                      ntrans |-> IF s.audio # 0 THEN 1 ELSE 0,
                      textKept |-> text2 = text0,
                      message |-> an.message, calls |-> an.calls,
                      exception |-> an.exception]]

AppIdle ==
    /\ artifacts = [svm |-> "ok", le |-> "ok"] /\ cache = "unset"
    /\ session = NoSession /\ lastRun = NoRun

\* The server process has started; nobody has opened the page yet.
AppInit ==
    /\ artifacts \in [svm : FileStates, le : FileStates]
    /\ cache = "unset"
    /\ session = NoSession
    /\ lastRun = NoRun

\* The handler's result becomes the state.
Commit(r) ==
    /\ Len(r.session.texto_completo) <= MaxText
    /\ Len(r.session.taVal) <= MaxText
    /\ cache' = r.cache
    /\ session' = r.session
    /\ lastRun' = r.out
    /\ UNCHANGED artifacts

\* A browser opens (or reloads) the page: a new session, first run.
Visit ==
    /\ AppOnly
    /\ Commit(ScriptRun(cache, artifacts, NoSession, "visit", "none", "ok"))

\* "Rerun" from the app menu: the script runs again, nothing else changed.
Rerun(o) ==
    /\ AppOnly
    /\ lastRun.kind # "none"
    /\ Commit(ScriptRun(cache, artifacts, session, "rerun", "none", o))

\* The user records a clip with the microphone widget (line 107).
Record(k, o) ==
    /\ AppOnly
    /\ session.taLive
    /\ Commit(ScriptRun(cache, artifacts,
                        [session EXCEPT !.audio = k, !.merges = 0],
                        "record", "none", o))

\* The user edits the text area (line 136).
EditText(t, o) ==
    /\ AppOnly
    /\ session.taLive
    /\ t # session.taVal
    /\ Commit(ScriptRun(cache, artifacts, [session EXCEPT !.taVal = t],
                        "edit", "none", o))

\* The user presses "Analizar" (line 150).
ClickAnalizar(o) ==
    /\ AppOnly
    /\ session.taLive
    /\ Commit(ScriptRun(cache, artifacts, session, "analizar", "analizar", o))

\* The user presses "Limpiar todo" (lines 152-154): the run clears the text
\* and st.rerun() runs the script once more.
ClickLimpiar(o1, o2) ==
    /\ AppOnly
    /\ session.taLive
    /\ LET r1 == ScriptRun(cache, artifacts, session, "limpiar", "limpiar", o1)
           r2 == ScriptRun(r1.cache, artifacts, r1.session, "limpiar", "none", o2)
       IN  IF r1.rerun
           THEN Commit([r2 EXCEPT !.out.ntrans = r1.out.ntrans + r2.out.ntrans,
                                  !.out.clipHeld = r1.out.clipHeld])
           ELSE Commit(r1)

\* The model files change on disk (training writes them, someone deletes them).
ChangeArtifacts(f, v) ==
    /\ AppOnly
    /\ artifacts[f] # v
    /\ artifacts' = [artifacts EXCEPT ![f] = v]
    /\ UNCHANGED <<cache, session, lastRun>>

\* "Clear cache" from the app menu empties st.cache_resource.
ClearCache ==
    /\ AppOnly
    /\ cache # "unset"
    /\ cache' = "unset"
    /\ UNCHANGED <<artifacts, session, lastRun>>

----------------------------------------------------------------------------
(* Specifications                                                           *)

\* append_text on every pair of strings up to MaxLen.
TextStart == TextInit /\ ClsIdle /\ VoiceIdle /\ AppIdle

TextNext == AppendText \/ NextDictation

SpecText == TextStart /\ [][TextNext]_vars

\* The results section on every distribution.
ClsStart == ClsInit /\ TextIdle /\ VoiceIdle /\ AppIdle

ClsNext == ShowResults

SpecClassify == ClsStart /\ [][ClsNext]_vars

\* Interleaved calls of transcribe_audio.
VoiceStart == VoiceInit /\ TextIdle /\ ClsIdle /\ AppIdle

VoiceNext ==
    \E c \in Callers :
        \/ \E b \in Clips(c) : Call(c, b)
        \/ \E io \in WriteOutcomes : WriteTemp(c, io)
        \/ \E io \in LoadOutcomes : LoadAudio(c, io)
        \/ \E o \in RecognizeOutcomes : Recognize(c, o)
        \/ \E rm \in RemoveOutcomes : CleanupAndReturn(c, rm)
        \/ TakeResult(c)

SpecVoice == VoiceStart /\ [][VoiceNext]_vars

\* What the speech service can answer in a run: nothing is asked of it
\* when the microphone widget holds no clip.
Answers == IF session.audio = 0 THEN {"ok"} ELSE RecognizeOutcomes

\* One session of a server whose model files are in place: every typed text.
Init == AppInit /\ artifacts = [svm |-> "ok", le |-> "ok"]
             /\ TextIdle /\ ClsIdle /\ VoiceIdle

Next ==
    \/ Visit
    \/ \E o \in Answers : Rerun(o)
    \/ \E k \in Recordings, o \in RecognizeOutcomes : Record(k, o)
    \/ \E t \in TypedTexts, o \in Answers : EditText(t, o)
    \/ \E o \in Answers : ClickAnalizar(o)
    \/ \E o1, o2 \in Answers : ClickLimpiar(o1, o2)

Spec == Init /\ [][Next]_vars

\* Texts typed while the model files come and go.
FewTexts == {<<>>, Word(MinLen)}

\* The server with its model files in any state, changing under it.
StartupInit == AppInit /\ TextIdle /\ ClsIdle /\ VoiceIdle

StartupNext ==
    \/ Visit
    \/ \E o \in Answers : Rerun(o)
    \/ \E k \in Recordings, o \in RecognizeOutcomes : Record(k, o)
    \/ \E t \in FewTexts, o \in Answers : EditText(t, o)
    \/ \E o \in Answers : ClickAnalizar(o)
    \/ \E o1, o2 \in Answers : ClickLimpiar(o1, o2)
    \/ \E f \in {"svm", "le"}, v \in FileStates : ChangeArtifacts(f, v)
    \/ ClearCache

SpecStartup == StartupInit /\ [][StartupNext]_vars

----------------------------------------------------------------------------
(* Properties                                                               *)

\* C1 as stated: when a call of transcribe_audio has returned, the file it
\* wrote no longer exists, whatever the exit path.
C1_TempFileGoneOnReturn ==
    \A c \in Callers :
        pc[c] = "returned" => ~(temp_file.exists /\ temp_file.writer = c)

\* C1 amended: every exit path calls cleanup_temp_file exactly once before
\* returning, and the file the call wrote is gone on return unless os.remove
\* failed, which is swallowed and leaves the file.
C1_CleanupOnEveryExit ==
    \A c \in Callers :
        pc[c] = "returned" =>
            /\ cleanups[c] = 1
            /\ (temp_file.exists /\ temp_file.writer = c) => rmFailed[c]

\* A call that wrote bytes AudioFile rejected has returned through the outer
\* handler and its file is gone.
C1_Witness ==
    \E c \in Callers :
        /\ pc[c] = "returned" /\ path[c] = "outer" /\ fault[c] = "ValueError"
        /\ cleanups[c] = 1 /\ ~temp_file.exists

\* C5: a call never lets an exception escape and returns the tuple of one of
\* the four outcomes, by what went wrong: Success (True, text, None),
\* Unrecognized, ServiceError, ProcessingError (False, None, message); the
\* flag is True exactly when the text is there and the message is not.
C5_TaggedOutcomes ==
    \A c \in Callers :
        /\ pc[c] # "raised"
        /\ pc[c] = "returned" =>
            /\ ret[c].success <=> (ret[c].text # 0 /\ ret[c].error = "None")
            /\ fault[c] = "none" =>
                 /\ ret[c].success /\ ret[c].text = audio_data[c]
                 /\ ret[c].error = "None"
            /\ fault[c] = "UnknownValueError" =>
                 ret[c] = [success |-> FALSE, text |-> 0, error |-> MsgUnknown]
            /\ fault[c] = "RequestError" =>
                 ret[c] = [success |-> FALSE, text |-> 0, error |-> MsgService]
            /\ fault[c] \notin {"none", "UnknownValueError", "RequestError"} =>
                 ret[c] = [success |-> FALSE, text |-> 0, error |-> MsgProcessing]

\* A call whose recording was not a readable WAV returned ProcessingError.
C5_Witness ==
    \E c \in Callers :
        /\ pc[c] = "returned" /\ fault[c] = "ValueError"
        /\ ret[c] = [success |-> FALSE, text |-> 0, error |-> MsgProcessing]

\* C6 as stated: a running call owns its temporary file: the file it is
\* about to load is the one it wrote, and what it recognizes is what it wrote.
C6_ExclusiveTempFile ==
    \A c \in Callers :
        /\ pc[c] = "load" =>
             /\ temp_file.exists /\ temp_file.writer = c
             /\ temp_file.data = audio_bytes[c]
        /\ pc[c] = "recognize" => audio_data[c] = audio_bytes[c]

\* A string with nothing but whitespace in it (the empty one too).
IsBlank(s) == \A i \in 1..Len(s) : s[i] \in Whitespace

\* C9: append_text returns the incoming text when the existing one is empty
\* or all whitespace, and otherwise the existing text, one space, the
\* incoming text, neither of them trimmed.
C9_AppendText ==
    textPhase = "merged" =>
        IF IsBlank(current_text)
        THEN merged = new_text
        ELSE /\ Len(merged) = Len(current_text) + 1 + Len(new_text)
             /\ SubSeq(merged, 1, Len(current_text)) = current_text
             /\ merged[Len(current_text) + 1] = " "
             /\ SubSeq(merged, Len(current_text) + 2, Len(merged)) = new_text

\* Two texts with whitespace at the joint were joined untrimmed.
C9_Witness ==
    /\ textPhase = "merged"
    /\ current_text # <<>> /\ ~IsBlank(current_text)
    /\ current_text[Len(current_text)] \in Whitespace
    /\ new_text # <<>> /\ new_text[1] \in Whitespace
    /\ Len(merged) = Len(current_text) + 1 + Len(new_text)

\* C7 as stated: the top-3 view lists the three most probable specialties in
\* descending order, equal ones by ascending index, so its first entry is the
\* predicted specialty (the argmax, lowest index on ties).
C7_Top3MatchesPrediction ==
    clsPhase = "shown" =>
        /\ Len(top3_idx) = TopK
        /\ top3_idx[1] = max_idx
        /\ \A i, j \in 1..Len(top3_idx) :
             i < j => \/ pred_probs[top3_idx[i]] > pred_probs[top3_idx[j]]
                      \/ /\ pred_probs[top3_idx[i]] = pred_probs[top3_idx[j]]
                         /\ top3_idx[i] < top3_idx[j]
        /\ \A k \in 1..NClasses :
             (\A i \in 1..Len(top3_idx) : top3_idx[i] # k) =>
                 \A i \in 1..Len(top3_idx) : pred_probs[k] <= pred_probs[top3_idx[i]]

\* C8: the bands have exact boundaries: above 0.8 high, above 0.5 and up to
\* 0.8 medium, up to 0.5 low; every confidence has exactly one band.
C8_Banding ==
    clsPhase = "shown" =>
        /\ confidence \in 0..Scale
        /\ band \in {"Alto", "Medio", "Bajo"}
        /\ band = "Alto" <=> 10 * confidence > 8 * Scale
        /\ band = "Medio" <=> (10 * confidence > 5 * Scale /\ 10 * confidence <= 8 * Scale)
        /\ band = "Bajo" <=> 10 * confidence <= 5 * Scale

\* A confidence of exactly 0.8 was shown in the medium band.
C8_Witness ==
    clsPhase = "shown" /\ 10 * confidence = 8 * Scale /\ band = "Medio"

\* C2 as stated: Analizar on a text shorter than 10 characters once trimmed
\* ends in a validation error and calls nothing downstream.
C2_TrimmedShortRejected ==
    (lastRun.kind = "analizar" /\ Len(Strip(session.taVal)) < MinLen) =>
        /\ lastRun.message \in {"too_brief", "empty"}
        /\ lastRun.calls = {}

\* C2 amended: Analizar on a text whose length as it stands (whitespace
\* counted) is below 10 shows the validation message (the error for an empty
\* text, the "too brief" warning otherwise) and calls nothing downstream.
C2_RawShortRejected ==
    (lastRun.kind = "analizar" /\ Len(session.taVal) < MinLen) =>
        /\ lastRun.message = IF session.taVal = <<>> THEN "empty" ELSE "too_brief"
        /\ lastRun.calls = {}

\* Analizar was pressed on a text of nine characters.
C2_Witness ==
    /\ lastRun.kind = "analizar" /\ Len(session.taVal) = MinLen - 1
    /\ lastRun.message = "too_brief"

\* C10 as stated: a recording's transcript is merged into the session text
\* at most once, and after "Limpiar todo" the session text is empty.
C10_ClipMergedAtMostOnce ==
    /\ session.merges <= 1
    /\ lastRun.kind = "limpiar" => session.texto_completo = <<>>

\* C3 as stated: in a run of the degraded system a held clip is still passed
\* to transcribe_audio.
C3_VoiceIndependentOfModel ==
    (lastRun.degraded /\ lastRun.clipHeld) => lastRun.ntrans >= 1

\* C3 amended: a run of the degraded system stops before the voice block: it
\* calls transcribe_audio for no clip, leaves the session text as it was, and
\* the microphone and the text area are not on the page.
C3_DegradedRunStopsBeforeVoice ==
    lastRun.degraded =>
        /\ lastRun.stopped /\ lastRun.ntrans = 0 /\ lastRun.textKept
        /\ session.audio = 0 /\ ~session.taLive

\* A degraded run found a clip in the microphone widget and did not pass it on.
C3_Witness ==
    lastRun.degraded /\ lastRun.clipHeld /\ lastRun.ntrans = 0

\* C4: once the cached load result is the failed one, every run shows the
\* system as offline and stops without calling the classifier and without an
\* exception, whatever the files on disk are by then.
C4_DegradedStatePersists ==
    cache = "failed" =>
        /\ lastRun.degraded /\ lastRun.banner = "offline" /\ lastRun.stopped
        /\ lastRun.calls = {} /\ ~lastRun.exception

\* Analizar was refused after the files had been put back.
C4_Witness ==
    /\ cache = "failed" /\ LoadFromDisk(artifacts) = "loaded"
    /\ lastRun.kind = "analizar" /\ lastRun.stopped

====
